---- MODULE Spec2Model ----
(***************************************************************************)
(* pycargoebuild/ebuild.py: the ebuild renderer (get_ebuild) and patcher   *)
(* (update_ebuild) with the block builders, the crate license resolver,    *)
(* the escaping helpers and the anchored regular expressions.              *)
(*                                                                         *)
(* A Python str is a sequence of one-character strings, so that the        *)
(* regular expressions, the template and the escaping work on characters.  *)
(***************************************************************************)
EXTENDS Integers, Sequences, FiniteSets, TLC

VARIABLES
    pc,                 \* position in the call being modelled
    pkg_meta,           \* PackageMetadata: description, homepage, license
    crates,             \* the crate list argument
    distdir,            \* downloaded archives: filename -> manifest in it
    crate_license,      \* keyword argument crate_license
    crate_tarball,      \* keyword argument crate_tarball (None or a name)
    license_overrides,  \* keyword argument license_overrides
    ebuild_in,          \* the ebuild argument update_ebuild was called with
    ebuild,             \* update_ebuild's local variable ebuild
    count,              \* the .count of the four substitution objects
    sub_log,            \* per regex.sub call: subject and spans of the matches
    ret,                \* the value returned by the call
    error,              \* the exception raised by the call
    warnings,           \* the records passed to logging.warning
    hash_order          \* the order this process iterates a set of str in

vars == <<pc, pkg_meta, crates, distdir, crate_license, crate_tarball,
          license_overrides, ebuild_in, ebuild, count, sub_log, ret, error,
          warnings, hash_order>>

----------------------------------------------------------------------------
\* Text primitives

\* The grave accent character (code point 96), which a TLA+ string cannot hold.
Backtick == "grave"

\* The ASCII characters the texts use, in code point order.
Ascii ==
    <<"\t", "\n", " ", "!", "\"", "#", "$", "%", "&", "'", "(", ")", "*", "+", ",", "-", ".", "/",
      "0", "1", "2", "3", "4", "5", "6", "7", "8", "9", ":", ";", "<", "=", ">", "?", "@", "A",
      "B", "C", "D", "E", "F", "G", "H", "I", "J", "K", "L", "M", "N", "O", "P", "Q", "R", "S",
      "T", "U", "V", "W", "X", "Y", "Z", "[", "\\", "]", "^", "_", Backtick, "a", "b", "c", "d",
      "e", "f", "g", "h", "i", "j", "k", "l", "m", "n", "o", "p", "q", "r", "s", "t", "u", "v",
      "w", "x", "y", "z", "{", "|", "}", "~">>

Chars == {Ascii[i] : i \in 1..Len(Ascii)}

\* Rank of a character in code point order (what str comparison uses).
CodePoint == [c \in Chars |-> CHOOSE i \in 1..Len(Ascii) : Ascii[i] = c]

None == <<"None">>

NL == <<"\n">>

Min(S) == CHOOSE x \in S : \A y \in S : x <= y

Max(S) == CHOOSE x \in S : \A y \in S : y <= x

\* a < b for two str values: lexicographic by code point.
StrLess(a, b) ==
    LET n == IF Len(a) < Len(b) THEN Len(a) ELSE Len(b)
        D == {i \in 1..n : a[i] # b[i]}
    IN  IF D = {} THEN Len(a) < Len(b)
        ELSE CodePoint[a[Min(D)]] < CodePoint[b[Min(D)]]

\* x placed into the ascending list s after the elements not greater than it.
Insert(x, s) ==
    LET k == Cardinality({i \in 1..Len(s) : ~StrLess(x, s[i])})
    IN  SubSeq(s, 1, k) \o <<x>> \o SubSeq(s, k + 1, Len(s))

RECURSIVE sorted(_)
\* sorted(iterable of str)
sorted(s) ==
    IF s = <<>> THEN <<>>
    ELSE Insert(s[Len(s)], sorted(SubSeq(s, 1, Len(s) - 1)))

RECURSIVE join(_, _)
\* sep.join(list of str)
join(sep, s) ==
    IF s = <<>> THEN <<>>
    ELSE IF Len(s) = 1 THEN s[1]
    ELSE s[1] \o sep \o join(sep, Tail(s))

Map(F(_), s) == [i \in 1..Len(s) |-> F(s[i])]

IsSpace(c) == c \in {" ", "\t", "\n"}

\* str.lstrip()
lstrip(s) ==
    LET K == {i \in 1..Len(s) : ~IsSpace(s[i])}
    IN  IF K = {} THEN <<>> ELSE SubSeq(s, Min(K), Len(s))

startswith(s, p) == Len(p) <= Len(s) /\ SubSeq(s, 1, Len(p)) = p

\* str.split(): the maximal runs of non-whitespace
split(s) ==
    LET starts == {i \in 1..Len(s) :
                      ~IsSpace(s[i]) /\ (i = 1 \/ IsSpace(s[i - 1]))}
        stop(i) == Min({j \in i..Len(s) :
                           j = Len(s) \/ IsSpace(s[j + 1])})
        RECURSIVE from(_)
        from(i) ==
            LET nxt == {k \in starts : k >= i}
            IN  IF nxt = {} THEN <<>>
                ELSE <<SubSeq(s, Min(nxt), stop(Min(nxt)))>>
                         \o from(stop(Min(nxt)) + 1)
    IN  from(1)

\* shlex.quote, which get_GIT_CRATES applies to each entry
SafeChars ==
    {Ascii[i] : i \in {k \in 1..Len(Ascii) :
        \/ Ascii[k] \in {"@", "%", "+", "=", ":", ",", ".", "/", "-", "_"}
        \/ CodePoint["0"] <= k /\ k <= CodePoint["9"]
        \/ CodePoint["A"] <= k /\ k <= CodePoint["Z"]
        \/ CodePoint["a"] <= k /\ k <= CodePoint["z"]}}

RECURSIVE EscapeSingleQuotes(_)
EscapeSingleQuotes(s) ==
    IF s = <<>> THEN <<>>
    ELSE (IF s[1] = "'" THEN <<"'", "\"", "'", "\"", "'">> ELSE <<s[1]>>)
             \o EscapeSingleQuotes(Tail(s))

shlex_quote(s) ==
    IF s = <<>> THEN <<"'", "'">>
    ELSE IF \A i \in 1..Len(s) : s[i] \in SafeChars THEN s
    ELSE <<"'">> \o EscapeSingleQuotes(s) \o <<"'">>

----------------------------------------------------------------------------
\* Block builders

IsFileCrate(c) == c.kind = "FileCrate"

IsGitCrate(c) == c.kind = "GitCrate"

CratesLine(c) == <<"\t">> \o c.crate_entry

get_CRATES_unsorted(crates_arg) ==
    IF crates_arg = <<>> THEN NL
    ELSE NL \o join(NL, Map(CratesLine, SelectSeq(crates_arg, IsFileCrate)))
            \o NL

\* get_CRATES(crates)
get_CRATES(crates_arg) ==
    IF crates_arg = <<>> THEN NL
    ELSE NL \o join(NL, sorted(Map(CratesLine,
                                   SelectSeq(crates_arg, IsFileCrate))))
            \o NL

GitCratesLine(c) ==
    <<"\t", "[">> \o c.name \o <<"]", "=">> \o shlex_quote(c.git_crate_entry)

\* get_GIT_CRATES(crates, distdir)
get_GIT_CRATES(crates_arg) ==
    LET values == join(NL, sorted(Map(GitCratesLine,
                                      SelectSeq(crates_arg, IsGitCrate))))
    IN  IF values # <<>>
        THEN <<"\n", "\n", "d", "e", "c", "l", "a", "r", "e", " ", "-", "A", " ", "G", "I", "T",
               "_", "C", "R", "A", "T", "E", "S", "=", "(", "\n">> \o values \o <<"\n", ")">>
        ELSE <<>>

----------------------------------------------------------------------------
\* License resolver

\* An archive distdir / filename with no member base_dir/Cargo.toml:
\* crate_tar.extractfile raises KeyError.
NoMember == [member |-> "absent", license |-> None, license_file |-> None]

\* An archive whose member base_dir/Cargo.toml is a directory:
\* crate_tar.extractfile returns None.
DirMember == [member |-> "other", license |-> None, license_file |-> None]

get_license_from_crate_exclusive(crate, distdir_arg) ==
    LET crate_metadata == distdir_arg[crate.filename]
    IN  IF crate_metadata.member # "file"
        THEN [raised |-> TRUE, exc |-> "RuntimeError", value |-> None,
              warning |-> "none"]
        ELSE IF crate_metadata.license_file # None
        THEN [raised |-> FALSE, exc |-> "none", value |-> None,
              warning |-> "license-file"]
        ELSE [raised |-> FALSE, exc |-> "none",
              value |-> crate_metadata.license,
              warning |-> IF crate_metadata.license = None
                          THEN "no-license" ELSE "none"]

\* get_license_from_crate(crate, distdir): the license returned and the
\* warning logged, or the exception raised: the KeyError of extractfile
\* (line 119) when the archive has no such member, the RuntimeError of
\* lines 120-122 when extractfile returns None for the member.
get_license_from_crate(crate, distdir_arg) ==
    LET crate_metadata == distdir_arg[crate.filename]
    IN  IF crate_metadata.member = "absent"
        THEN [raised |-> TRUE, exc |-> "KeyError", value |-> None,
              warning |-> "none"]
        ELSE IF crate_metadata.member # "file"
        THEN [raised |-> TRUE, exc |-> "RuntimeError", value |-> None,
              warning |-> "none"]
        ELSE [raised |-> FALSE, exc |-> "none",
              value |-> crate_metadata.license,
              warning |-> IF crate_metadata.license_file # None
                          THEN "license-file"
                          ELSE IF crate_metadata.license = None
                          THEN "no-license"
                          ELSE "none"]

\* The elements of a set of str in the order an iteration visits them: the
\* order depends on the hash seed of the process, and is any one.
SetToSeq(S) == SelectSeq(hash_order, LAMBDA x : x \in S)

\* What spdx.parse returns for an empty text (Python's None).
NoExpression == {}

\* license_expression: spdx.parse(text, strict=True) for conjunctions of
\* identifiers, as the set of identifiers; None for an empty text.
spdx_parse(text) ==
    LET tokens == split(text)
        ids == {tokens[i] : i \in {k \in 1..Len(tokens) :
                    tokens[k] \notin {<<"(">>, <<")">>, <<"A", "N", "D">>}}}
    IN  IF tokens = <<>> THEN NoExpression ELSE ids

\* license_expression: .simplify() of a conjunction, its identifiers once
\* each in ascending order.
simplify(parsed) == sorted(SetToSeq(parsed))

\* pycargoebuild.license.spdx_to_ebuild for a conjunction of identifiers
\* that Gentoo names as SPDX does.
spdx_to_ebuild(simplified) == join(<<" ">>, simplified)

\* pycargoebuild.format.format_license_var for a value that fits one line.
format_license_var(value, prefix) == value

Parenthesize(x) == <<"(", " ">> \o x \o <<" ", ")">>

\* The license each crate contributes (lines 152-155), in list order.
CrateLicenseResults(crates_arg, distdir_arg, overrides) ==
    [i \in 1..Len(crates_arg) |->
        IF crates_arg[i].name \notin DOMAIN overrides
        THEN get_license_from_crate(crates_arg[i], distdir_arg)
        ELSE [raised |-> FALSE, exc |-> "none",
              value |-> overrides[crates_arg[i].name],
              warning |-> "none"]]

get_crate_LICENSE_no_empty_check(crates_arg, distdir_arg, overrides) ==
    LET results == CrateLicenseResults(crates_arg, distdir_arg, overrides)
        crate_licenses == {results[i].value : i \in 1..Len(results)} \ {None}
        crate_licenses_str ==
            spdx_to_ebuild(sorted(SetToSeq(crate_licenses)))
    IN  [raised |-> \E i \in 1..Len(results) : results[i].raised,
         exc |-> "RuntimeError",
         value |-> <<" ">> \o crate_licenses_str,
         warnings |-> <<>>]

\* get_crate_LICENSE(crates, distdir, license_overrides)
get_crate_LICENSE(crates_arg, distdir_arg, overrides) ==
    LET results == CrateLicenseResults(crates_arg, distdir_arg, overrides)
        bad == {i \in 1..Len(results) : results[i].raised}
        upto == IF bad = {} THEN Len(results) ELSE Min(bad) - 1
        logged == SelectSeq([i \in 1..upto |->
                                [crate |-> crates_arg[i].name,
                                 kind |-> results[i].warning]],
                            LAMBDA w : w.kind # "none")
        crate_licenses == {results[i].value : i \in 1..Len(results)} \ {None}
        combined_license == join(<<" ", "A", "N", "D", " ">>,
                                 Map(Parenthesize, SetToSeq(crate_licenses)))
        parsed_license == spdx_parse(combined_license)
        crate_licenses_str ==
            format_license_var(spdx_to_ebuild(simplify(parsed_license)),
                               <<"L", "I", "C", "E", "N", "S", "E", "+", "=", "\"", " ">>)
    IN  IF bad # {}
        THEN [raised |-> TRUE, exc |-> results[Min(bad)].exc, value |-> <<>>,
              warnings |-> logged]
        ELSE IF parsed_license = NoExpression
        THEN [raised |-> FALSE, exc |-> "none", value |-> <<>>,
              warnings |-> logged]
        ELSE [raised |-> FALSE, exc |-> "none",
              value |-> IF ~startswith(crate_licenses_str, NL)
                        THEN <<" ">> \o crate_licenses_str
                        ELSE crate_licenses_str,
              warnings |-> logged]

\* get_package_LICENSE(license_str): for a text spdx.parse returns None
\* for, .simplify() is called on None (line 102) and raises AttributeError.
get_package_LICENSE(license_str) ==
    IF license_str # None
    THEN LET parsed == spdx_parse(license_str)
         IN  IF parsed = NoExpression
             THEN [raised |-> TRUE, exc |-> "AttributeError", value |-> <<>>]
             ELSE [raised |-> FALSE, exc |-> "none",
                   value |-> format_license_var(
                                 spdx_to_ebuild(simplify(parsed)),
                                 <<"L", "I", "C", "E", "N", "S", "E", "=", "\"">>)]
    ELSE [raised |-> FALSE, exc |-> "none", value |-> <<>>]

----------------------------------------------------------------------------
\* Escaping helpers

\* collapse_whitespace(value)
collapse_whitespace(value) == join(<<" ">>, split(value))

DQUOTE_SPECIAL == {"$", Backtick, "\"", "\\"}

RECURSIVE bash_dquote_escape(_)
\* bash_dquote_escape(value)
bash_dquote_escape(value) ==
    IF value = <<>> THEN <<>>
    ELSE (IF value[1] \in DQUOTE_SPECIAL
          THEN <<"\\", value[1]>> ELSE <<value[1]>>)
             \o bash_dquote_escape(Tail(value))

\* urllib.parse.quote_plus of one of the characters url_dquote_escape matches
quote_plus(c) ==
    CASE c = " " -> <<"+">>
      [] c = "$" -> <<"%", "2", "4">>
      [] c = Backtick -> <<"%", "6", "0">>
      [] c = "\"" -> <<"%", "2", "2">>
      [] c = "\\" -> <<"%", "5", "C">>
      [] c = "\t" -> <<"%", "0", "9">>
      [] c = "\n" -> <<"%", "0", "A">>

RECURSIVE url_dquote_escape(_)
\* url_dquote_escape(value)
url_dquote_escape(value) ==
    IF value = <<>> THEN <<>>
    ELSE (IF value[1] \in DQUOTE_SPECIAL \/ IsSpace(value[1])
          THEN quote_plus(value[1]) ELSE <<value[1]>>)
             \o url_dquote_escape(Tail(value))

----------------------------------------------------------------------------
\* Renderer

Lit(text) == [field |-> "", text |-> text]

Field(name) == [field |-> name, text |-> <<>>]

EBUILD_TEMPLATE_START ==
    << Lit(<<"#", " ", "C", "o", "p", "y", "r", "i", "g", "h", "t", " ">>), Field("year"),
       Lit(<<" ", "G", "e", "n", "t", "o", "o", " ", "A", "u", "t", "h", "o", "r", "s", "\n", "#",
             " ", "D", "i", "s", "t", "r", "i", "b", "u", "t", "e", "d", " ", "u", "n", "d", "e",
             "r", " ", "t", "h", "e", " ", "t", "e", "r", "m", "s", " ", "o", "f", " ", "t", "h",
             "e", " ", "G", "N", "U", " ", "G", "e", "n", "e", "r", "a", "l", " ", "P", "u", "b",
             "l", "i", "c", " ", "L", "i", "c", "e", "n", "s", "e", " ", "v", "2", "\n", "\n", "#",
             " ", "A", "u", "t", "o", "g", "e", "n", "e", "r", "a", "t", "e", "d", " ", "b", "y",
             " ", "p", "y", "c", "a", "r", "g", "o", "e", "b", "u", "i", "l", "d", " ">>),
       Field("prog_version"),
       Lit(<<"\n", "\n", "E", "A", "P", "I", "=", "8", "\n", "\n", "C", "R", "A", "T", "E", "S",
             "=", "\"">>), Field("crates"), Lit(<<"\"">>),
       Field("opt_git_crates"),
       Lit(<<"\n", "\n", "i", "n", "h", "e", "r", "i", "t", " ", "c", "a", "r", "g", "o", "\n",
             "\n", "D", "E", "S", "C", "R", "I", "P", "T", "I", "O", "N", "=", "\"">>), Field("description"),
       Lit(<<"\"", "\n", "H", "O", "M", "E", "P", "A", "G", "E", "=", "\"">>), Field("homepage"),
       Lit(<<"\"", "\n", "S", "R", "C", "_", "U", "R", "I", "=", "\"", "\n", "\t", "$", "{", "C",
             "A", "R", "G", "O", "_", "C", "R", "A", "T", "E", "_", "U", "R", "I", "S", "}", "\n",
             "\"">>),
       Field("opt_crate_tarball"),
       Lit(<<"\n", "\n", "L", "I", "C", "E", "N", "S", "E", "=", "\"">>), Field("pkg_license"), Lit(<<"\"", "\n">>) >>

EBUILD_TEMPLATE_CRATE_TARBALL ==
    << Lit(<<"\n", "i", "f", " ", "[", "[", " ", "$", "{", "P", "K", "G", "B", "U", "M", "P", "I",
             "N", "G", "}", " ", "!", "=", " ", "$", "{", "P", "V", "R", "}", " ", "]", "]", ";",
             " ", "t", "h", "e", "n", "\n", "\t", "S", "R", "C", "_", "U", "R", "I", "+", "=",
             "\"", "\n", "\t", "\t">>),
       Field("0"),
       Lit(<<"\n", "\t", "\"", "\n", "f", "i">>) >>

EBUILD_TEMPLATE_CRATE_LICENSE ==
    << Lit(<<"#", " ", "D", "e", "p", "e", "n", "d", "e", "n", "t", " ", "c", "r", "a", "t", "e",
             " ", "l", "i", "c", "e", "n", "s", "e", "s", "\n", "L", "I", "C", "E", "N", "S", "E",
             "+", "=", "\"">>),
       Field("crate_licenses"), Lit(<<"\"", "\n">>) >>

EBUILD_TEMPLATE_END ==
    << Lit(<<"S", "L", "O", "T", "=", "\"", "0", "\"", "\n", "K", "E", "Y", "W", "O", "R", "D",
             "S", "=", "\"", "~", "a", "m", "d", "6", "4", "\"", "\n">>) >>

RECURSIVE format(_, _)
\* template.format(**args)
format(template, args) ==
    IF template = <<>> THEN <<>>
    ELSE (IF template[1].field = "" THEN template[1].text
          ELSE args[template[1].field])
             \o format(Tail(template), args)

\* pycargoebuild.__version__
prog_version == <<"0", ".", "1", "3", ".", "0">>

\* str(datetime.date.today().year)
year == <<"2", "0", "2", "6">>

OrEmpty(v) == IF v = None THEN <<>> ELSE v

\* get_ebuild(pkg_meta, crates, distdir, crate_license=, crate_tarball=,
\*            license_overrides=)
get_ebuild(meta, crates_arg, distdir_arg, with_license, tarball, overrides) ==
    LET lic == get_crate_LICENSE(crates_arg, distdir_arg, overrides)
        pkg == get_package_LICENSE(meta.license)
        raised == lic.raised \/ pkg.raised
        template == EBUILD_TEMPLATE_START
                        \o (IF with_license
                            THEN EBUILD_TEMPLATE_CRATE_LICENSE ELSE <<>>)
                        \o EBUILD_TEMPLATE_END
    IN  [raised |-> raised,
         exc |-> IF lic.raised THEN lic.exc
                 ELSE IF pkg.raised THEN pkg.exc ELSE "none",
         warnings |-> lic.warnings,
         value |-> IF raised THEN <<>> ELSE format(template,
            [crates |-> get_CRATES(IF tarball = None THEN crates_arg ELSE <<>>),
             crate_licenses |-> lic.value,
             description |-> bash_dquote_escape(collapse_whitespace(
                                 OrEmpty(meta.description))),
             homepage |-> url_dquote_escape(OrEmpty(meta.homepage)),
             opt_crate_tarball |->
                 IF tarball # None
                 THEN format(EBUILD_TEMPLATE_CRATE_TARBALL,
                             [x \in {"0"} |-> tarball])
                 ELSE <<>>,
             opt_git_crates |-> get_GIT_CRATES(crates_arg),
             pkg_license |-> pkg.value,
             prog_version |-> prog_version,
             year |-> year])]

----------------------------------------------------------------------------
\* Regular expressions (re.DOTALL | re.MULTILINE)

\* ^ under re.MULTILINE: position i starts the text or follows a newline
AtLineStart(s, i) == i = 1 \/ s[i - 1] = "\n"

\* $ under re.MULTILINE, after a match that consumed s[j]
AtLineEnd(s, j) == j = Len(s) \/ s[j + 1] = "\n"

\* The non-empty literal text occurs in s at position i
LiteralAt(s, i, text) ==
    /\ i + Len(text) - 1 <= Len(s)
    /\ s[i] = text[1]
    /\ SubSeq(s, i, i + Len(text) - 1) = text

Quotes == {"'", "\""}

NoMatch == [start |-> 0, stop |-> 0, groups |-> [start |-> <<>>, delim |-> <<>>, ws |-> <<>>]]

\* The candidates for the closing quote of a value opened at s[q]: the same
\* quote character, at the end of a line.
ClosingQuotes(s, q) ==
    {j \in (q + 1)..Len(s) : s[j] = s[q] /\ AtLineEnd(s, j)}

LastClosingQuote(s, q) ==
    LET closing == ClosingQuotes(s, q)
    IN  IF closing = {} THEN 0 ELSE Max(closing)

\* .*?(?P=delim)$ : the lazy body stops at the first candidate; 0 when
\* there is none
FirstClosingQuote(s, q) ==
    LET closing == ClosingQuotes(s, q)
    IN  IF closing = {} THEN 0 ELSE Min(closing)

\* ^(?P<start>PREFIX(?P<delim>['"])).*?(?P=delim)$ tried at position i
QuotedMatch(prefix, s, i) ==
    LET q == i + Len(prefix)
        stop == FirstClosingQuote(s, q)
    IN  IF /\ AtLineStart(s, i)
           /\ LiteralAt(s, i, prefix)
           /\ q <= Len(s)
           /\ s[q] \in Quotes
           /\ stop > 0
        THEN [start |-> i, stop |-> stop,
              groups |-> [start |-> SubSeq(s, i, q), delim |-> <<s[q]>>,
                          ws |-> <<>>]]
        ELSE NoMatch

AppendMatch_replacing_body(prefix, s, i) == QuotedMatch(prefix, s, i)

\* ^(?P<start>CRATES=(?P<delim2>['"]).*?(?P=delim2))(?P<delim>)$ tried at i
AppendMatch(prefix, s, i) ==
    LET m == QuotedMatch(prefix, s, i)
    IN  IF m.stop = 0 THEN NoMatch
        ELSE [start |-> i, stop |-> m.stop,
              groups |-> [start |-> SubSeq(s, i, m.stop), delim |-> <<>>,
                          ws |-> <<>>]]

GIT_CRATES_DECL == <<"d", "e", "c", "l", "a", "r", "e", " ", "-", "A", " ", "G", "I", "T", "_",
                     "C", "R", "A", "T", "E", "S", "=", "(">>

\* (?P<ws>\n\n?)declare -A GIT_CRATES=[(].*?[)]$ tried at position i
GitCratesMatch(s, i) ==
    LET two == i + 1 <= Len(s) /\ s[i + 1] = "\n"
                   /\ LiteralAt(s, i + 2, GIT_CRATES_DECL)
        d == IF two THEN i + 2 ELSE i + 1
        body == d + Len(GIT_CRATES_DECL)
        C == {j \in body..Len(s) : s[j] = ")" /\ AtLineEnd(s, j)}
    IN  IF /\ i <= Len(s)
           /\ s[i] = "\n"
           /\ LiteralAt(s, d, GIT_CRATES_DECL)
           /\ C # {}
        THEN [start |-> i, stop |-> Min(C),
              groups |-> [start |-> <<>>, delim |-> <<>>,
                          ws |-> SubSeq(s, i, d - 1)]]
        ELSE NoMatch

CRATES_RE == [kind |-> "quoted", prefix |-> <<"C", "R", "A", "T", "E", "S", "=">>]

GIT_CRATES_RE == [kind |-> "git", prefix |-> <<>>]

CRATE_LICENSE_RE ==
    [kind |-> "quoted", prefix |-> <<"#", " ", "D", "e", "p", "e", "n", "d", "e", "n", "t", " ",
                                     "c", "r", "a", "t", "e", " ", "l", "i", "c", "e", "n", "s",
                                     "e", "s", "\n", "L", "I", "C", "E", "N", "S", "E", "+", "=">>]

GIT_CRATES_APPEND_RE == [kind |-> "append", prefix |-> <<"C", "R", "A", "T", "E", "S", "=">>]

\* regex.match at position i
MatchAt(regex, s, i) ==
    CASE regex.kind = "quoted" -> QuotedMatch(regex.prefix, s, i)
      [] regex.kind = "append" -> AppendMatch(regex.prefix, s, i)
      [] regex.kind = "git" -> GitCratesMatch(s, i)

RECURSIVE NonOverlapping(_)
\* Of the matches found at the positions of a text, the ones a left-to-right
\* scan keeps: the leftmost one, then the leftmost one that starts after its
\* end, and so on.
NonOverlapping(found) ==
    IF found = {} THEN <<>>
    ELSE LET leftmost == Min({x.start : x \in found})
             m == CHOOSE x \in found : x.start = leftmost
         IN  <<m>> \o NonOverlapping({x \in found : x.start > m.stop})

\* The non-overlapping matches regex.sub visits, leftmost first, from pos on.
\* Every pattern opens with a literal character (the newline of (?P<ws>...),
\* or the first character of the prefix after ^), so a match can only start
\* on that character; whether one starts at a position depends on the text
\* alone, not on where the scan resumed.
finditer(regex, s, pos) ==
    LET first == IF regex.kind = "git" THEN "\n" ELSE regex.prefix[1]
        tried == {MatchAt(regex, s, i) :
                     i \in {k \in pos..Len(s) : s[k] = first}}
    IN  NonOverlapping(tried \ {NoMatch})

RECURSIVE splice(_, _, _, _)
\* s from pos on, with the k-th match replaced by reps[k]
splice(s, matches, reps, pos) ==
    IF matches = <<>> THEN SubSeq(s, pos, Len(s))
    ELSE SubSeq(s, pos, matches[1].start - 1) \o reps[1]
             \o splice(s, Tail(matches), Tail(reps), matches[1].stop + 1)

CountingSubst_call_no_delim(match, repl) == match.groups.start \o repl

\* CountingSubst.__call__(match) with self.repl() = repl
CountingSubst_call(match, repl) ==
    match.groups.start \o repl \o match.groups.delim

GitCratesSubst_call_keep_ws(match, repl) ==
    IF lstrip(repl) # <<>> THEN match.groups.ws \o lstrip(repl)
    ELSE match.groups.ws

\* GitCratesSubst.__call__(match) with self.repl() = repl
GitCratesSubst_call(match, repl) ==
    IF lstrip(repl) # <<>> THEN match.groups.ws \o lstrip(repl) ELSE <<>>

\* s with each of the matches ms replaced by what CountingSubst returns
replace_counting(s, ms, repl) ==
    splice(s, ms, [k \in 1..Len(ms) |-> CountingSubst_call(ms[k], repl)], 1)

\* s with each of the matches ms replaced by what GitCratesSubst returns
replace_git_crates(s, ms, repl) ==
    splice(s, ms, [k \in 1..Len(ms) |-> GitCratesSubst_call(ms[k], repl)], 1)

\* regex.sub(CountingSubst(lambda: repl), s) as the new text
sub_counting(regex, repl, s) == replace_counting(s, finditer(regex, s, 1), repl)

\* regex.sub(GitCratesSubst(lambda: repl), s) as the new text
sub_git_crates(regex, repl, s) ==
    replace_git_crates(s, finditer(regex, s, 1), repl)

Spans(ms) == [k \in 1..Len(ms) |-> [start |-> ms[k].start, stop |-> ms[k].stop]]

----------------------------------------------------------------------------
\* Inputs

MaxCrates == 2

MaxFragments == 3

MIT == <<"M", "I", "T">>

Apache == <<"A", "p", "a", "c", "h", "e", "-", "2", ".", "0">>

FileCrate(name, crate_entry, filename) ==
    [kind |-> "FileCrate", name |-> name, crate_entry |-> crate_entry,
     git_crate_entry |-> <<>>, filename |-> filename]

GitCrate(name, git_crate_entry, filename) ==
    [kind |-> "GitCrate", name |-> name, crate_entry |-> <<>>,
     git_crate_entry |-> git_crate_entry, filename |-> filename]

Serde == FileCrate(<<"s", "e", "r", "d", "e">>, <<"s", "e", "r", "d", "e", "@", "1", ".", "0">>, "serde-1.0.crate")

Libc == FileCrate(<<"l", "i", "b", "c">>, <<"l", "i", "b", "c", "@", "0", ".", "2">>, "libc-0.2.crate")

Inflector == FileCrate(<<"I", "n", "f", "l", "e", "c", "t", "o", "r">>, <<"I", "n", "f", "l", "e", "c", "t", "o", "r", "@", "0",
                                           ".", "1", "1">>, "Inflector-0.11.crate")

Ring == FileCrate(<<"r", "i", "n", "g">>, <<"r", "i", "n", "g", "@", "0", ".", "1", "7">>, "ring-0.17.crate")

Cc == FileCrate(<<"c", "c">>, <<"c", "c", "@", "1", ".", "0">>, "cc-1.0.crate")

Home == FileCrate(<<"h", "o", "m", "e">>, <<"h", "o", "m", "e", "@", "0", ".", "5">>, "home-0.5.crate")

Gix == GitCrate(<<"g", "i", "x">>, <<"h", "t", "t", "p", "s", ":", "/", "/", "e", ".", "o", "r", "g", "/",
                              "g", "i", "x", ";", "7", "f", "1", "c", ";", "g", "i", "x", "-", "%",
                              "c", "o", "m", "m", "i", "t", "%">>, "gix.gh.tar.gz")

Manifest(license, license_file) ==
    [member |-> "file", license |-> license, license_file |-> license_file]

\* The downloaded archives: every way a manifest declares its license, and
\* the two ways an archive has no manifest to read.
Distdir ==
    [f \in {Serde.filename, Libc.filename, Inflector.filename, Ring.filename,
            Cc.filename, Home.filename, Gix.filename} |->
        CASE f = Serde.filename -> Manifest(MIT, None)
          [] f = Libc.filename -> Manifest(MIT, <<"L", "I", "C", "E", "N", "S", "E">>)
          [] f = Inflector.filename -> Manifest(None, <<"L", "I", "C", "E", "N", "S", "E", ".",
                                                        "m", "d">>)
          [] f = Ring.filename -> Manifest(None, None)
          [] f = Cc.filename -> NoMember
          [] f = Home.filename -> DirMember
          [] f = Gix.filename -> Manifest(Apache, None)]

RECURSIVE ListsOver(_, _)
\* The lists of at most n distinct elements of S
ListsOver(S, n) ==
    IF n = 0 THEN {<<>>}
    ELSE LET shorter == ListsOver(S, n - 1)
         IN  shorter \cup
             UNION {{Append(l, x) : x \in S \ {l[i] : i \in 1..Len(l)}} :
                        l \in {m \in shorter : Len(m) = n - 1}}

CratePool == {Serde, Libc, Inflector, Ring, Cc, Home, Gix}

\* The orders in which a set of the license texts can be iterated
HashOrders == {<<MIT, Apache>>, <<Apache, MIT>>}

\* The crates update_ebuild is given: a file crate and a git crate whose
\* manifests are read, and the two crates whose archives have none.
PatchPool == {Serde, Gix, Cc, Home}

\* The crate lists update_ebuild is given: none, each crate alone, and the
\* file crate with the git crate in both orders.
PatchLists == ListsOver(PatchPool, 1) \cup {<<Serde, Gix>>, <<Gix, Serde>>}

Overrides ==
    {<<>>, [n \in {Ring.name, Cc.name} |-> IF n = Ring.name THEN MIT ELSE Apache]}

PkgMetas ==
    { [description |-> <<"A", "n", " ", " ", "\"", "x", "\"", "\n", "$", "H", " ", "t", "o", "o",
                         "l">>,
       homepage |-> <<"h", "t", "t", "p", "s", ":", "/", "/", "e", ".", "o", "r", "g", "/", "a",
                      " ", "b">>,
       license |-> MIT],
      [description |-> None, homepage |-> None, license |-> None],
      [description |-> None, homepage |-> None, license |-> <<>>] }

Tarballs == {None, <<"c", "r", "a", "t", "e", "s", ".", "t", "a", "r", ".", "x", "z">>}

\* Pieces existing ebuilds are made of
Fragments ==
    { <<"C", "R", "A", "T", "E", "S", "=", "\"", "\n", "\t", "s", "e", "r", "d", "e", "@", "1",
        ".", "0", "\n", "\"", "\n">>,
      <<"C", "R", "A", "T", "E", "S", "=", "'", "'", "\n", "#", " ", "D", "e", "p", "e", "n", "d",
        "e", "n", "t", " ", "c", "r", "a", "t", "e", " ", "l", "i", "c", "e", "n", "s", "e", "s",
        "\n", "L", "I", "C", "E", "N", "S", "E", "+", "=", "'", "'", "\n">>,
      <<"\n", "d", "e", "c", "l", "a", "r", "e", " ", "-", "A", " ", "G", "I", "T", "_", "C", "R",
        "A", "T", "E", "S", "=", "(", "\n", "\t", "[", "g", "i", "x", "]", "=", "o", "l", "d",
        "\n", ")", "\n">>,
      <<"#", " ", "D", "e", "p", "e", "n", "d", "e", "n", "t", " ", "c", "r", "a", "t", "e", " ",
        "l", "i", "c", "e", "n", "s", "e", "s", "\n", "L", "I", "C", "E", "N", "S", "E", "+", "=",
        "\"", " ", "M", "I", "T", "\"", "\n">>,
      <<"#", " ", "D", "e", "p", "e", "n", "d", "e", "n", "t", " ", "c", "r", "a", "t", "e", " ",
        "l", "i", "c", "e", "n", "s", "e", "s", "\n", "L", "I", "C", "E", "N", "S", "E", "+", "=",
        "\"", "\n">>,
      <<"C", "R", "A", "T", "E", "S", "=", "\"", "x", "\n">> }

RECURSIVE Documents(_)
\* The concatenations of at most n fragments
Documents(n) ==
    IF n = 0 THEN {<<>>}
    ELSE LET shorter == Documents(n - 1)
         IN  shorter \cup {d \o f : d \in shorter, f \in Fragments}

NoReturn == [fn |-> "none", arg |-> 0, value |-> <<>>]

NoError == [type |-> "none", desc |-> "", count |-> 0, expected |-> 0]

ZeroCounts == [crates |-> 0, git |-> 0, license |-> 0, append |-> 0]

----------------------------------------------------------------------------
\* Calls of the builders and of the renderer

\* RuntimeError(f"{base_dir}/Cargo.toml not found in {filename}")
ManifestNotFound ==
    [type |-> "RuntimeError", desc |-> "Cargo.toml not found", count |-> 0,
     expected |-> 0]

\* The KeyError of TarFile.extractfile for a name the archive does not hold
MemberNotFound ==
    [type |-> "KeyError", desc |-> "filename not found", count |-> 0,
     expected |-> 0]

\* AttributeError("'NoneType' object has no attribute 'simplify'")
SimplifyOfNone ==
    [type |-> "AttributeError", desc |-> "simplify of None", count |-> 0,
     expected |-> 0]

\* The exception a call of a builder propagates
Raised(exc) ==
    CASE exc = "KeyError" -> MemberNotFound
      [] exc = "AttributeError" -> SimplifyOfNone
      [] OTHER -> ManifestNotFound

RECURSIVE Repeat(_, _)
\* What n calls log when each logs w
Repeat(w, n) == IF n = 0 THEN <<>> ELSE w \o Repeat(w, n - 1)

CountMismatch(desc, found, expected) ==
    [type |-> "RuntimeError", desc |-> desc, count |-> found,
     expected |-> expected]

InputsUnchanged ==
    UNCHANGED <<pkg_meta, crates, distdir, crate_license, crate_tarball,
                license_overrides, hash_order>>

CallGetCRATES ==
    /\ pc = "call"
    /\ ret' = [fn |-> "get_CRATES", arg |-> 0, value |-> get_CRATES(crates)]
    /\ pc' = "returned"
    /\ UNCHANGED <<ebuild_in, ebuild, count, sub_log, error, warnings>>
    /\ InputsUnchanged

CallGetLicenseFromCrate ==
    /\ pc = "call"
    /\ \E i \in 1..Len(crates) :
        /\ crates[i].name \notin DOMAIN license_overrides
        /\ LET r == get_license_from_crate(crates[i], distdir)
           IN  /\ pc' = IF r.raised THEN "raised" ELSE "returned"
               /\ error' = IF r.raised THEN Raised(r.exc) ELSE NoError
               /\ ret' = IF r.raised THEN NoReturn
                         ELSE [fn |-> "get_license_from_crate", arg |-> i,
                               value |-> r.value]
               /\ warnings' = IF r.warning = "none" THEN <<>>
                              ELSE <<[crate |-> crates[i].name,
                                      kind |-> r.warning]>>
    /\ UNCHANGED <<ebuild_in, ebuild, count, sub_log>>
    /\ InputsUnchanged

CallGetPackageLICENSE ==
    /\ pc = "call"
    /\ LET r == get_package_LICENSE(pkg_meta.license)
       IN  /\ pc' = IF r.raised THEN "raised" ELSE "returned"
           /\ error' = IF r.raised THEN Raised(r.exc) ELSE NoError
           /\ ret' = IF r.raised THEN NoReturn
                     ELSE [fn |-> "get_package_LICENSE", arg |-> 0,
                           value |-> r.value]
    /\ UNCHANGED <<ebuild_in, ebuild, count, sub_log, warnings>>
    /\ InputsUnchanged

CallGetCrateLICENSE ==
    /\ pc = "call"
    /\ LET r == get_crate_LICENSE(crates, distdir, license_overrides)
       IN  /\ pc' = IF r.raised THEN "raised" ELSE "returned"
           /\ error' = IF r.raised THEN Raised(r.exc) ELSE NoError
           /\ ret' = IF r.raised THEN NoReturn
                     ELSE [fn |-> "get_crate_LICENSE", arg |-> 0,
                           value |-> r.value]
           /\ warnings' = r.warnings
    /\ UNCHANGED <<ebuild_in, ebuild, count, sub_log>>
    /\ InputsUnchanged

CallGetEbuild ==
    /\ pc = "call"
    /\ LET r == get_ebuild(pkg_meta, crates, distdir, crate_license,
                           crate_tarball, license_overrides)
       IN  /\ pc' = IF r.raised THEN "raised" ELSE "returned"
           /\ error' = IF r.raised THEN Raised(r.exc) ELSE NoError
           /\ ret' = IF r.raised THEN NoReturn
                     ELSE [fn |-> "get_ebuild", arg |-> 0, value |-> r.value]
           /\ warnings' = r.warnings
    /\ UNCHANGED <<ebuild_in, ebuild, count, sub_log>>
    /\ InputsUnchanged

----------------------------------------------------------------------------
\* Patcher: update_ebuild, one action per statement

\* The caller renders an ebuild and passes it to update_ebuild with the
\* inputs it was rendered from.
RenderForUpdate ==
    /\ pc = "render"
    /\ LET r == get_ebuild(pkg_meta, crates, distdir, crate_license,
                           crate_tarball, license_overrides)
       IN  /\ pc' = IF r.raised THEN "raised" ELSE "sub_crates"
           /\ error' = IF r.raised THEN Raised(r.exc) ELSE NoError
           /\ ebuild_in' = r.value
           /\ ebuild' = r.value
           /\ warnings' = warnings \o r.warnings
    /\ UNCHANGED <<count, sub_log, ret>>
    /\ InputsUnchanged

\* line 288 with regex = CRATES_RE
SubCrates ==
    /\ pc = "sub_crates"
    /\ LET repl == get_CRATES(IF crate_tarball = None THEN crates ELSE <<>>)
           ms == finditer(CRATES_RE, ebuild, 1)
       IN  /\ ebuild' = replace_counting(ebuild, ms, repl)
           /\ count' = [count EXCEPT !.crates = Len(ms)]
           /\ sub_log' = Append(sub_log, [regex |-> "CRATES_RE",
                                          subject |-> ebuild,
                                          spans |-> Spans(ms)])
    /\ pc' = "sub_git_crates"
    /\ UNCHANGED <<ebuild_in, ret, error, warnings>>
    /\ InputsUnchanged

\* line 288 with regex = GIT_CRATES_RE
SubGitCrates ==
    /\ pc = "sub_git_crates"
    /\ LET repl == get_GIT_CRATES(crates)
           ms == finditer(GIT_CRATES_RE, ebuild, 1)
       IN  /\ ebuild' = replace_git_crates(ebuild, ms, repl)
           /\ count' = [count EXCEPT !.git = Len(ms)]
           /\ sub_log' = Append(sub_log, [regex |-> "GIT_CRATES_RE",
                                          subject |-> ebuild,
                                          spans |-> Spans(ms)])
    /\ pc' = "sub_crate_license"
    /\ UNCHANGED <<ebuild_in, ret, error, warnings>>
    /\ InputsUnchanged

\* line 288 with regex = CRATE_LICENSE_RE; the replacement is computed, with
\* its warnings, once for every match, and the first computation may raise
SubCrateLicense ==
    /\ pc = "sub_crate_license"
    /\ LET ms == finditer(CRATE_LICENSE_RE, ebuild, 1)
           r == get_crate_LICENSE(crates, distdir, license_overrides)
           raised == ms # <<>> /\ r.raised
       IN  /\ ebuild' = IF ms = <<>> \/ raised THEN ebuild
                        ELSE replace_counting(ebuild, ms, r.value)
           /\ count' = [count EXCEPT !.license =
                            IF raised THEN 1 ELSE Len(ms)]
           /\ sub_log' = Append(sub_log, [regex |-> "CRATE_LICENSE_RE",
                                          subject |-> ebuild,
                                          spans |-> Spans(ms)])
           /\ warnings' = warnings \o
                              Repeat(r.warnings, IF raised THEN 1 ELSE Len(ms))
           /\ error' = IF raised THEN Raised(r.exc) ELSE error
           /\ pc' = IF raised THEN "raised" ELSE "assert_crates"
    /\ UNCHANGED <<ebuild_in, ret>>
    /\ InputsUnchanged

AssertCratesCount_nonzero ==
    /\ pc = "assert_crates"
    /\ IF count.crates < 1
       THEN /\ error' = CountMismatch("CRATES=", count.crates, 1)
            /\ pc' = "raised"
       ELSE /\ error' = error
            /\ pc' = "assert_crate_license"
    /\ UNCHANGED <<ebuild_in, ebuild, count, sub_log, ret, warnings>>
    /\ InputsUnchanged

\* line 290
AssertCratesCount ==
    /\ pc = "assert_crates"
    /\ IF count.crates # 1
       THEN /\ error' = CountMismatch("CRATES=", count.crates, 1)
            /\ pc' = "raised"
       ELSE /\ error' = error
            /\ pc' = "assert_crate_license"
    /\ UNCHANGED <<ebuild_in, ebuild, count, sub_log, ret, warnings>>
    /\ InputsUnchanged

AssertCrateLicenseCount_always_one ==
    /\ pc = "assert_crate_license"
    /\ IF count.license # 1
       THEN /\ error' = CountMismatch(
                            "Crate LICENSE+= (with marker comment)",
                            count.license, 1)
            /\ pc' = "raised"
       ELSE /\ error' = error
            /\ pc' = "git_crates"
    /\ UNCHANGED <<ebuild_in, ebuild, count, sub_log, ret, warnings>>
    /\ InputsUnchanged

\* lines 291-292
AssertCrateLicenseCount ==
    /\ pc = "assert_crate_license"
    /\ LET expected == IF crate_license THEN 1 ELSE 0
       IN  IF count.license # expected
           THEN /\ error' = CountMismatch(
                                "Crate LICENSE+= (with marker comment)",
                                count.license, expected)
                /\ pc' = "raised"
           ELSE /\ error' = error
                /\ pc' = "git_crates"
    /\ UNCHANGED <<ebuild_in, ebuild, count, sub_log, ret, warnings>>
    /\ InputsUnchanged

AppendOrAssertGitCrates_unchecked ==
    /\ pc = "git_crates"
    /\ LET git_crates == get_GIT_CRATES(crates)
           ms == finditer(GIT_CRATES_APPEND_RE, ebuild, 1)
       IN  IF count.git = 0 /\ git_crates # <<>>
           THEN /\ ebuild' = replace_counting(ebuild, ms, git_crates)
                /\ count' = [count EXCEPT !.append = Len(ms)]
                /\ sub_log' = Append(sub_log,
                                     [regex |-> "GIT_CRATES_APPEND_RE",
                                      subject |-> ebuild,
                                      spans |-> Spans(ms)])
                /\ IF Len(ms) # 1
                   THEN /\ error' = CountMismatch(
                               "CRATES= (while appending GIT_CRATES=)",
                               Len(ms), 1)
                        /\ pc' = "raised"
                   ELSE /\ error' = error
                        /\ pc' = "return"
           ELSE /\ pc' = "return"
                /\ UNCHANGED <<ebuild, count, sub_log, error>>
    /\ UNCHANGED <<ebuild_in, ret, warnings>>
    /\ InputsUnchanged

\* lines 294-301
AppendOrAssertGitCrates ==
    /\ pc = "git_crates"
    /\ LET git_crates == get_GIT_CRATES(crates)
           ms == finditer(GIT_CRATES_APPEND_RE, ebuild, 1)
       IN  IF count.git = 0
           THEN IF git_crates # <<>>
                THEN /\ ebuild' = replace_counting(ebuild, ms, git_crates)
                     /\ count' = [count EXCEPT !.append = Len(ms)]
                     /\ sub_log' = Append(sub_log,
                                          [regex |-> "GIT_CRATES_APPEND_RE",
                                           subject |-> ebuild,
                                           spans |-> Spans(ms)])
                     /\ IF Len(ms) # 1
                        THEN /\ error' = CountMismatch(
                                    "CRATES= (while appending GIT_CRATES=)",
                                    Len(ms), 1)
                             /\ pc' = "raised"
                        ELSE /\ error' = error
                             /\ pc' = "return"
                ELSE /\ pc' = "return"
                     /\ UNCHANGED <<ebuild, count, sub_log, error>>
           ELSE /\ IF count.git # 1
                   THEN /\ error' = CountMismatch("GIT_CRATES=", count.git, 1)
                        /\ pc' = "raised"
                   ELSE /\ error' = error
                        /\ pc' = "return"
                /\ UNCHANGED <<ebuild, count, sub_log>>
    /\ UNCHANGED <<ebuild_in, ret, warnings>>
    /\ InputsUnchanged

\* line 303
ReturnEbuild ==
    /\ pc = "return"
    /\ ret' = [fn |-> "update_ebuild", arg |-> 0, value |-> ebuild]
    /\ pc' = "returned"
    /\ UNCHANGED <<ebuild_in, ebuild, count, sub_log, error, warnings>>
    /\ InputsUnchanged

update_ebuild ==
    \/ SubCrates
    \/ SubGitCrates
    \/ SubCrateLicense
    \/ AssertCratesCount
    \/ AssertCrateLicenseCount
    \/ AppendOrAssertGitCrates
    \/ ReturnEbuild

----------------------------------------------------------------------------
\* Specifications

InitLocals ==
    /\ count = ZeroCounts
    /\ sub_log = <<>>
    /\ ret = NoReturn
    /\ error = NoError
    /\ warnings = <<>>
    /\ hash_order \in HashOrders

\* The builders and the renderer applied to every input
InitBuild ==
    /\ pc = "call"
    /\ pkg_meta \in PkgMetas
    /\ crates \in ListsOver(CratePool, MaxCrates)
    /\ distdir = Distdir
    /\ crate_license \in BOOLEAN
    /\ crate_tarball \in Tarballs
    /\ license_overrides \in Overrides
    /\ ebuild_in = <<>>
    /\ ebuild = <<>>
    /\ InitLocals

NextBuild ==
    \/ CallGetCRATES
    \/ CallGetLicenseFromCrate
    \/ CallGetCrateLICENSE
    \/ CallGetPackageLICENSE
    \/ CallGetEbuild

SpecBuild == InitBuild /\ [][NextBuild]_vars

\* An ebuild rendered and then updated with the inputs it was rendered from
InitRoundTrip ==
    /\ pc = "render"
    /\ pkg_meta \in PkgMetas
    /\ crates \in ListsOver(CratePool, MaxCrates)
    /\ distdir = Distdir
    /\ crate_license \in BOOLEAN
    /\ crate_tarball \in Tarballs
    /\ license_overrides \in Overrides
    /\ ebuild_in = <<>>
    /\ ebuild = <<>>
    /\ InitLocals

NextRoundTrip == RenderForUpdate \/ update_ebuild

SpecRoundTrip == InitRoundTrip /\ [][NextRoundTrip]_vars

\* An existing ebuild updated for a crate list
InitPatch ==
    /\ pc = "sub_crates"
    /\ pkg_meta \in {m \in PkgMetas : m.license = None}
    /\ crates \in PatchLists
    /\ distdir = Distdir
    /\ crate_license \in BOOLEAN
    /\ crate_tarball = None
    /\ license_overrides = <<>>
    /\ ebuild_in \in Documents(MaxFragments)
    /\ ebuild = ebuild_in
    /\ InitLocals

NextPatch == update_ebuild

SpecPatch == InitPatch /\ [][NextPatch]_vars

----------------------------------------------------------------------------
\* Properties

Occurrences(s, text) ==
    Cardinality({i \in 1..Len(s) : LiteralAt(s, i, text)})

ExpectedLicenseCount == IF crate_license THEN 1 ELSE 0

HasGitCrate == \E i \in 1..Len(crates) : IsGitCrate(crates[i])

HasFileCrate == \E i \in 1..Len(crates) : IsFileCrate(crates[i])

\* The input with the bodies of its CRATES= and crate LICENSE+= regions
\* brought up to date, and nothing else changed.
Refreshed(doc) ==
    sub_counting(CRATE_LICENSE_RE,
                 get_crate_LICENSE(crates, distdir, license_overrides).value,
                 sub_counting(CRATES_RE,
                              get_CRATES(IF crate_tarball = None
                                         THEN crates ELSE <<>>),
                              doc))

\* A crate outside the override map whose archive has no manifest to read
Unreadable(i) ==
    /\ crates[i].name \notin DOMAIN license_overrides
    /\ distdir[crates[i].filename].member # "file"

\* The exception of the first crate of the list that cannot be read
ResolverError ==
    LET i == Min({k \in 1..Len(crates) : Unreadable(k)})
    IN  IF distdir[crates[i].filename].member = "absent"
        THEN MemberNotFound ELSE ManifestNotFound

\* The number of crate LICENSE+= regions the third regex.sub call matched
LicenseRegions == IF Len(sub_log) >= 3 THEN Len(sub_log[3].spans) ELSE 0

\* The replacement of a crate LICENSE+= region is computed, for a crate list
\* with a crate that cannot be read
ResolverFails ==
    LicenseRegions > 0 /\ \E i \in 1..Len(crates) : Unreadable(i)

Cut(s, from, to) == SubSeq(s, 1, from - 1) \o SubSeq(s, to + 1, Len(s))

InsertAfter(s, p, text) == SubSeq(s, 1, p) \o text \o SubSeq(s, p + 1, Len(s))

\* C1: an ebuild rendered by get_ebuild and passed to update_ebuild with the
\* inputs it was rendered from is returned unchanged, and update_ebuild
\* raises nothing: the only error of the round trip is the renderer's own.
C1_RoundTripFixedPoint ==
    /\ pc = "raised" =>
          /\ sub_log = <<>>
          /\ error \in {ManifestNotFound, MemberNotFound, SimplifyOfNone}
    /\ pc = "returned" =>
          /\ ret.fn = "update_ebuild"
          /\ ebuild_in # <<>>
          /\ ret.value = ebuild_in

C1_Witness ==
    /\ pc = "returned"
    /\ ret.value = ebuild_in
    /\ crate_license
    /\ HasGitCrate
    /\ HasFileCrate
    /\ Len(sub_log) = 3
    /\ \A k \in 1..3 : Len(sub_log[k].spans) = 1

\* C2 as claimed: update_ebuild returns a document only if CRATES_RE matched
\* the input exactly once; with any other count it raises the RuntimeError
\* that names "CRATES=" and the count found, and returns nothing.
C2_CratesErrorNamed ==
    LET n == Len(finditer(CRATES_RE, ebuild_in, 1))
    IN  /\ pc \in {"assert_crate_license", "git_crates", "return", "returned"}
              => n = 1
        /\ pc = "returned" => ret.fn = "update_ebuild"
        /\ pc = "raised" /\ n # 1 =>
              /\ error = CountMismatch("CRATES=", n, 1)
              /\ ret = NoReturn

\* C2: update_ebuild returns a document only if CRATES_RE matched the input
\* exactly once; with any other count it returns nothing and raises: the
\* exception of the license resolver when a crate LICENSE+= region matched
\* and a crate cannot be read (the substitutions run before the counts are
\* checked), and otherwise the RuntimeError that names "CRATES=" and the
\* count found.
C2_CratesExactlyOnce ==
    LET n == Len(finditer(CRATES_RE, ebuild_in, 1))
    IN  /\ pc \in {"assert_crate_license", "git_crates", "return", "returned"}
              => n = 1
        /\ pc = "returned" => ret.fn = "update_ebuild"
        /\ pc = "raised" /\ n # 1 =>
              /\ ret = NoReturn
              /\ error = IF ResolverFails THEN ResolverError
                         ELSE CountMismatch("CRATES=", n, 1)

C2_Witness ==
    /\ pc = "raised"
    /\ Len(finditer(CRATES_RE, ebuild_in, 1)) = 2
    /\ LicenseRegions > 0
    /\ \E i \in 1..Len(crates) : IsFileCrate(crates[i])
    /\ error = CountMismatch("CRATES=", 2, 1)
    /\ ret = NoReturn

\* C3 as claimed: update_ebuild returns a document only if the crate
\* LICENSE+= region matched once when crate_license is True and not at all
\* when it is False; with any other count it raises a RuntimeError and
\* returns nothing.
C3_LicenseErrorRuntime ==
    /\ pc \in {"git_crates", "return", "returned"}
          => LicenseRegions = ExpectedLicenseCount
    /\ pc = "raised" /\ LicenseRegions # ExpectedLicenseCount
          => error.type = "RuntimeError" /\ ret = NoReturn

\* C3: update_ebuild returns a document only if the crate LICENSE+= region
\* matched once when crate_license is True and not at all when it is False;
\* with any other count it returns nothing and raises: the exception of the
\* license resolver (a KeyError or a RuntimeError) when a region matched and
\* a crate cannot be read, otherwise the RuntimeError of the CRATES= count
\* when that count is not 1, and otherwise the RuntimeError that names the
\* crate LICENSE+= region, the count found and the count expected.
C3_LicenseCountByFlag ==
    /\ pc \in {"git_crates", "return", "returned"}
          => /\ LicenseRegions = ExpectedLicenseCount
             /\ count.license = LicenseRegions
    /\ pc = "raised" /\ LicenseRegions # ExpectedLicenseCount =>
          /\ ret = NoReturn
          /\ error =
                IF ResolverFails THEN ResolverError
                ELSE IF count.crates # 1
                THEN CountMismatch("CRATES=", count.crates, 1)
                ELSE CountMismatch("Crate LICENSE+= (with marker comment)",
                                   LicenseRegions, ExpectedLicenseCount)

C3_Witness ==
    /\ pc = "raised"
    /\ ~crate_license
    /\ count.crates = 1
    /\ count.license = 1
    /\ Occurrences(ebuild_in, CRATE_LICENSE_RE.prefix) = 1
    /\ error.desc = "Crate LICENSE+= (with marker comment)"

\* C4 as claimed: when GIT_CRATES_RE matched nothing and the crate list has
\* a git crate, the returned document holds exactly one
\* declare -A GIT_CRATES=( block, right after the closing quote of the
\* CRATES= assignment, and every other byte is the input's.
C4_OnlyBlockInserted ==
    pc = "returned" /\ count.git = 0 /\ HasGitCrate =>
        /\ Occurrences(ret.value, GIT_CRATES_DECL) = 1
        /\ \E p \in 1..Len(ebuild_in) :
              /\ ebuild_in[p] \in Quotes
              /\ ret.value = InsertAfter(ebuild_in, p, get_GIT_CRATES(crates))

\* C4: when GIT_CRATES_RE matched nothing and the crate list has a git crate,
\* the returned document holds exactly one declare -A GIT_CRATES=( block,
\* inserted right after the closing quote of the CRATES= assignment; the
\* bodies of the CRATES= and crate LICENSE+= regions hold their freshly
\* computed values, and every other byte is the input's.
C4_GitCratesAppended ==
    pc = "returned" /\ count.git = 0 /\ HasGitCrate =>
        LET base == Refreshed(ebuild_in)
            ms == finditer(CRATES_RE, base, 1)
        IN  /\ Occurrences(ret.value, GIT_CRATES_DECL) = 1
            /\ Len(ms) = 1
            /\ base[ms[1].stop] \in Quotes
            /\ ret.value = InsertAfter(base, ms[1].stop,
                                       get_GIT_CRATES(crates))
            /\ Len(ret.value) > Len(base)

C4_Witness ==
    /\ pc = "returned"
    /\ count.git = 0
    /\ HasGitCrate
    /\ Refreshed(ebuild_in) = ebuild_in
    /\ Occurrences(ebuild_in, GIT_CRATES_DECL) = 0
    /\ Occurrences(ret.value, GIT_CRATES_DECL) = 1
    /\ Len(ebuild_in) > Len(get_CRATES(crates)) + 9

\* The declare -A GIT_CRATES=( block of doc from..to, with the newline that
\* ends the line before it and the blank line that separates it, if any.
IsGitCratesBlock(doc, from, to) ==
    LET d == IF doc[from + 1] = "\n" THEN from + 2 ELSE from + 1
    IN  /\ from < Len(doc)
        /\ doc[from] = "\n"
        /\ LiteralAt(doc, d, GIT_CRATES_DECL)
        /\ to >= d + Len(GIT_CRATES_DECL)
        /\ doc[to] = ")"
        /\ AtLineEnd(doc, to)
        /\ \A j \in (d + Len(GIT_CRATES_DECL))..(to - 1) :
              ~(doc[j] = ")" /\ AtLineEnd(doc, j))

\* C5 as claimed: when GIT_CRATES_RE matched once and the crate list has no
\* git crate, the returned document holds no GIT_CRATES declaration: the
\* block is cut out with its separating blank line, and every other byte is
\* the input's.
C5_OnlyBlockRemoved ==
    pc = "returned" /\ count.git = 1 /\ ~HasGitCrate =>
        /\ Occurrences(ret.value, GIT_CRATES_DECL) = 0
        /\ \E from \in 1..Len(ebuild_in) : \E to \in from..Len(ebuild_in) :
              /\ IsGitCratesBlock(ebuild_in, from, to)
              /\ ret.value = Cut(ebuild_in, from, to)

\* C5: when GIT_CRATES_RE matched once and the crate list has no git crate,
\* the returned document holds no GIT_CRATES declaration: the block is cut
\* out with its separating blank line; the bodies of the CRATES= and crate
\* LICENSE+= regions hold their freshly computed values, and every other
\* byte is the input's.
C5_GitCratesRemoved ==
    pc = "returned" /\ count.git = 1 /\ ~HasGitCrate =>
        /\ Occurrences(ret.value, GIT_CRATES_DECL) = 0
        /\ \E from \in 1..Len(ebuild_in) : \E to \in from..Len(ebuild_in) :
              /\ IsGitCratesBlock(ebuild_in, from, to)
              /\ ret.value = Refreshed(Cut(ebuild_in, from, to))

C5_Witness ==
    /\ pc = "returned"
    /\ count.git = 1
    /\ ~HasGitCrate
    /\ Refreshed(ebuild_in) = ebuild_in
    /\ \E from \in 1..Len(ebuild_in) : \E to \in from..Len(ebuild_in) :
          /\ IsGitCratesBlock(ebuild_in, from, to)
          /\ SubSeq(ebuild_in, from, from + 1) = <<"\n", "\n">>
          /\ ret.value = Cut(ebuild_in, from, to)

\* The nonempty lines of a text, by the index of their first character
LineStarts(s) == {i \in 1..Len(s) : AtLineStart(s, i) /\ s[i] # "\n"}

LineAt(s, i) ==
    SubSeq(s, i, Min({j \in i..Len(s) : AtLineEnd(s, j)}))

Reorderings(l) ==
    {[i \in 1..Len(l) |-> l[f[i]]] :
        f \in {g \in [1..Len(l) -> 1..Len(l)] :
                  \A i, j \in 1..Len(l) : i # j => g[i] # g[j]}}

FileEntries == {crates[i].crate_entry : i \in {k \in 1..Len(crates) :
                                                  IsFileCrate(crates[k])}}

\* C6: the value of get_CRATES starts and ends with a newline, its lines are
\* the entries of the file crates and only those, each after one tab, in
\* ascending order, and every permutation of the list gives the same value.
C6_CratesSortedAnyOrder ==
    pc = "returned" /\ ret.fn = "get_CRATES" =>
        LET v == ret.value
            starts == LineStarts(v)
        IN  /\ v[1] = "\n" /\ v[Len(v)] = "\n"
            /\ \A i \in starts : v[i] = "\t"
            /\ {Tail(LineAt(v, i)) : i \in starts} = FileEntries
            /\ Cardinality(starts) = Cardinality(FileEntries)
            /\ \A i, j \in starts :
                  i < j => StrLess(LineAt(v, i), LineAt(v, j))
            /\ \A p \in Reorderings(crates) : get_CRATES(p) = v

C6_Witness ==
    /\ pc = "returned"
    /\ ret.fn = "get_CRATES"
    /\ Len(crates) >= 2
    /\ IsFileCrate(crates[1]) /\ IsFileCrate(crates[2])
    /\ StrLess(crates[2].crate_entry, crates[1].crate_entry)
    /\ Cardinality(LineStarts(ret.value)) >= 2

\* No crate of the list contributes a license: none is overridden and no
\* manifest declares one.
NoCrateContributes ==
    \A i \in 1..Len(crates) :
        /\ crates[i].name \notin DOMAIN license_overrides
        /\ distdir[crates[i].filename].member = "file"
        /\ distdir[crates[i].filename].license = None

LICENSE_APPEND == <<"L", "I", "C", "E", "N", "S", "E", "+", "=">>

\* C7 as claimed: when no crate contributes a license, get_crate_LICENSE
\* returns the empty string and get_ebuild emits no LICENSE+= assignment.
C7_NoAssignmentEmitted ==
    pc = "returned" /\ NoCrateContributes =>
        /\ ret.fn = "get_crate_LICENSE" => ret.value = <<>>
        /\ ret.fn = "get_ebuild" => Occurrences(ret.value, LICENSE_APPEND) = 0

\* C7: when no crate contributes a license, get_crate_LICENSE returns the
\* empty string, and get_ebuild emits the empty assignment LICENSE+="" under
\* the marker comment when crate_license is True, and no LICENSE+= at all
\* when it is False.
C7_EmptyAssignmentEmitted ==
    pc = "returned" /\ NoCrateContributes =>
        /\ ret.fn = "get_crate_LICENSE" => ret.value = <<>>
        /\ ret.fn = "get_ebuild" =>
              IF crate_license
              THEN /\ Occurrences(ret.value, LICENSE_APPEND) = 1
                   /\ Occurrences(ret.value,
                          <<"#", " ", "D", "e", "p", "e", "n", "d", "e", "n", "t", " ", "c", "r",
                            "a", "t", "e", " ", "l", "i", "c", "e", "n", "s", "e", "s", "\n", "L",
                            "I", "C", "E", "N", "S", "E", "+", "=", "\"", "\"", "\n">>) = 1
              ELSE Occurrences(ret.value, LICENSE_APPEND) = 0

C7_Witness ==
    /\ pc = "returned"
    /\ ret.fn = "get_ebuild"
    /\ NoCrateContributes
    /\ crates # <<>>
    /\ crate_license
    /\ Occurrences(ret.value, <<"L", "I", "C", "E", "N", "S", "E", "+", "=", "\"", "\"", "\n">>) = 1

\* C8 as claimed: zero or one match of GIT_CRATES_RE never raises the
\* GIT_CRATES= error, and two or more matches make update_ebuild raise the
\* RuntimeError that names "GIT_CRATES=" and the count found.
C8_GitCratesErrorNamed ==
    /\ pc = "raised" /\ error.desc = "GIT_CRATES=" => count.git >= 2
    /\ pc = "returned" => count.git \in {0, 1}
    /\ pc = "raised" /\ count.git >= 2
          => error = CountMismatch("GIT_CRATES=", count.git, 1)

\* C8: zero or one match of GIT_CRATES_RE is no error of its own, whatever
\* crate_license is: a call that raises with such a count raises for another
\* reason (the license resolver, the CRATES= count, the crate LICENSE+=
\* count, or the count of the append pattern). Two or more matches always
\* make update_ebuild raise and return nothing; the error is the RuntimeError
\* that names "GIT_CRATES=" and the count found when nothing failed before
\* that check, and the error of the earlier failure otherwise.
C8_GitCratesErrorAfterOthers ==
    /\ pc = "returned" => count.git \in {0, 1}
    /\ pc = "raised" => ret = NoReturn
    /\ pc = "raised" /\ count.git >= 2 =>
          error =
            IF ResolverFails THEN ResolverError
            ELSE IF count.crates # 1
            THEN CountMismatch("CRATES=", count.crates, 1)
            ELSE IF LicenseRegions # ExpectedLicenseCount
            THEN CountMismatch("Crate LICENSE+= (with marker comment)",
                               LicenseRegions, ExpectedLicenseCount)
            ELSE CountMismatch("GIT_CRATES=", count.git, 1)
    /\ pc = "raised" /\ count.git \in {0, 1} =>
          \/ ResolverFails /\ error = ResolverError
          \/ /\ count.crates # 1
             /\ error = CountMismatch("CRATES=", count.crates, 1)
          \/ /\ LicenseRegions # ExpectedLicenseCount
             /\ error = CountMismatch("Crate LICENSE+= (with marker comment)",
                                      LicenseRegions, ExpectedLicenseCount)
          \/ /\ count.git = 0
             /\ HasGitCrate
             /\ Len(sub_log) = 4
             /\ Len(sub_log[4].spans) # 1
             /\ error = CountMismatch("CRATES= (while appending GIT_CRATES=)",
                                      Len(sub_log[4].spans), 1)

C8_Witness ==
    /\ pc = "raised"
    /\ crate_license
    /\ LicenseRegions = 1
    /\ count.git = 2
    /\ Occurrences(ebuild_in, GIT_CRATES_DECL) = 2
    /\ error = CountMismatch("GIT_CRATES=", 2, 1)

\* The manifest get_license_from_crate read for the call that returned
ManifestRead == distdir[crates[ret.arg].filename]

\* C9 as claimed: a manifest with a license-file logs a warning and
\* contributes nothing; one with neither logs a warning and contributes
\* nothing; one with an SPDX expression contributes it; a license is
\* contributed in the last case only.
C9_ThreeExclusiveOutcomes ==
    pc = "returned" /\ ret.fn = "get_license_from_crate" =>
        /\ ManifestRead.license_file # None
              => warnings # <<>> /\ ret.value = None
        /\ ManifestRead.license_file = None /\ ManifestRead.license = None
              => warnings # <<>> /\ ret.value = None
        /\ ManifestRead.license_file = None /\ ManifestRead.license # None
              => ret.value = ManifestRead.license

\* C9: for a crate whose manifest get_license_from_crate reads, a warning is
\* logged exactly when the manifest declares a license-file or declares no
\* license, and the crate contributes the SPDX expression its manifest
\* declares, also when a license-file is declared beside it; it contributes
\* nothing otherwise.
C9_LicenseReturnedWhenDeclared ==
    pc = "returned" /\ ret.fn = "get_license_from_crate" =>
        /\ ManifestRead.member = "file"
        /\ ret.value = ManifestRead.license
        /\ warnings # <<>> <=>
              (ManifestRead.license_file # None \/ ManifestRead.license = None)
        /\ Len(warnings) <= 1
        /\ ManifestRead.license_file # None
              => warnings[1].kind = "license-file"
        /\ ManifestRead.license_file = None /\ ManifestRead.license = None
              => warnings[1].kind = "no-license"

C9_Witness ==
    /\ pc = "returned"
    /\ ret.fn = "get_license_from_crate"
    /\ ManifestRead.license_file # None
    /\ ManifestRead.license # None
    /\ ret.value = ManifestRead.license
    /\ Len(warnings) = 1

\* The index of the opening quote of the n-th region the k-th regex.sub
\* call matched (CRATES_RE, CRATE_LICENSE_RE, GIT_CRATES_APPEND_RE)
OpeningQuote(k, n) ==
    sub_log[k].spans[n].start
        + (IF sub_log[k].regex = "CRATE_LICENSE_RE"
           THEN Len(CRATE_LICENSE_RE.prefix) ELSE Len(CRATES_RE.prefix))

QuotedCalls == {k \in 1..Len(sub_log) : sub_log[k].regex # "GIT_CRATES_RE"}

\* Position j ends a line and holds the quote character that opened at q
ClosesAt(s, q, j) == j > q /\ s[j] \in Quotes /\ s[j] = s[q] /\ AtLineEnd(s, j)

\* C10 as claimed: the body of a quoted region is matched greedily; the
\* region ends at the last line end of the document that is preceded by
\* the quote character that opened the value.
C10_GreedyBody ==
    \A k \in QuotedCalls : \A n \in 1..Len(sub_log[k].spans) :
        LET s == sub_log[k].subject
            q == OpeningQuote(k, n)
            e == sub_log[k].spans[n].stop
        IN  /\ ClosesAt(s, q, e)
            /\ \A j \in (e + 1)..Len(s) : ~ClosesAt(s, q, j)

\* C10: the body of a quoted region is matched lazily across lines; the
\* region ends at the first line end after the opening quote that is
\* preceded by the quote character that opened the value.
C10_LazyBody ==
    \A k \in QuotedCalls : \A n \in 1..Len(sub_log[k].spans) :
        LET s == sub_log[k].subject
            q == OpeningQuote(k, n)
            e == sub_log[k].spans[n].stop
        IN  /\ ClosesAt(s, q, e)
            /\ \A j \in (q + 1)..(e - 1) : ~ClosesAt(s, q, j)

C10_Witness ==
    \E k \in QuotedCalls : \E n \in 1..Len(sub_log[k].spans) :
        LET s == sub_log[k].subject
            q == OpeningQuote(k, n)
            e == sub_log[k].spans[n].stop
        IN  /\ ClosesAt(s, q, e)
            /\ e > q + 1
            /\ \E i \in (q + 1)..(e - 1) : s[i] = "\n"
            /\ \E j \in (e + 1)..Len(s) : ClosesAt(s, q, j)

====
